---- MODULE Spec2Model ----
(***************************************************************************)
(* Cross-chain bridge-and-execute intent orchestration of MemeVault:       *)
(* the useNexusIntent hook (createBridgeAndExecute, monitorIntent,         *)
(* monitorRealIntent, reset) and the adapter functions it calls            *)
(* (checkNexusSupport, createRealNexusIntent, createSimulatedIntent).      *)
(*                                                                         *)
(* Every await of createBridgeAndExecute is a suspension point: one action *)
(* models the synchronous run of the handler from one await to the next.   *)
(* Every setTimeout callback is one action.                                *)
(***************************************************************************)
EXTENDS Integers, Sequences, FiniteSets, TLC

\* ------------------------------------------------------------------ bounds
\* Number of createBridgeAndExecute invocations that pass their preconditions.
MaxCalls == 2
\* type(uint256).max, scaled down: the largest value a uint256 holds.
UintMax == 3

\* --------------------------------------------------------- program constants
Sepolia == 11155111
BaseSepolia == 84532
maxPolls == 120
PendingBelow == 3
BridgingBelow == 10
ExecutingBelow == 12
maxAttempts == 30

\* --------------------------------------------------------------- value sets
CallIds == 1..MaxCalls
Null == <<>>
Hash(origin, kind, c) == <<origin, kind, c>>

\* Chains the wallet can be on.
Chains == {Sepolia, BaseSepolia}
\* (fromChain, toChain) of the requests that are issued.
\* Chain 1 (Ethereum mainnet) is outside the supported set.
Requests ==
  { <<1, BaseSepolia>>, <<Sepolia, BaseSepolia>>,
    <<BaseSepolia, BaseSepolia>>, <<Sepolia, 1>> }
\* params.amount: strings parseEther accepts, and one it does not.
DecimalAmounts == {"100"}
Amounts == DecimalAmounts \cup {"abc"}

StatusRank ==
  [idle |-> 0, creating |-> 1, pending |-> 2, bridging |-> 3,
   executing |-> 4, completed |-> 5, failed |-> 6]
Terminal == {"completed", "failed"}

\* The (address, walletClient, memeVaultContract.address) the hook can be rendered with.
Renders ==
  { <<TRUE, TRUE, TRUE>>, <<FALSE, TRUE, TRUE>>, <<TRUE, FALSE, TRUE>>, <<TRUE, TRUE, FALSE>> }

VARIABLES
  hook,         \* the useState cells of useNexusIntent, plus what the last step wrote
  calls,        \* calls[c]: the createBridgeAndExecute invocation c while it is in flight
  mon,          \* mon[c]: the monitor closure started by invocation c
  nCalls,       \* invocations that passed their preconditions so far
  settled,      \* the invocation the last step settled: its inputs and its outcome
  walletChain,  \* the chain the wallet provider is on
  nexusInitialized, \* nexusSdk.isInitialized()
  sessionChain, \* the chain the wallet was on when nexusSdk.initialize was called, 0 if none
  probe,        \* input and output of a stand-alone checkNexusSupport evaluation
  modal,        \* AISuggestionModal: its cells and the position of handleCrossChainConfirm
  vault         \* the MemeVault contract: its two mappings and the outcome of the last call

vars == <<hook, calls, mon, nCalls, settled, walletChain, nexusInitialized, sessionChain, probe, modal, vault>>

\* ------------------------------------------------------------- hook setters
\* hook.written is the sequence of values the current step passed to setStatus;
\* hook.writer is the invocation whose facade or monitor wrote status last.
Fresh == [hook EXCEPT !.written = <<>>]
setStatus(h, s, c) == [h EXCEPT !.status = s, !.written = Append(@, s), !.writer = c]
setError(h, e) == [h EXCEPT !.error = e]
setTxHash(h, x) == [h EXCEPT !.txHash = x]
setIntentId(h, x) == [h EXCEPT !.intentId = x]
setBridgeTxHash(h, x) == [h EXCEPT !.bridgeTxHash = x]
setExecuteTxHash(h, x) == [h EXCEPT !.executeTxHash = x]
setLoading(h, b) == [h EXCEPT !.loading = b]

InitHook ==
  [intentId |-> Null, status |-> "idle", error |-> "null", txHash |-> Null,
   bridgeTxHash |-> Null, executeTxHash |-> Null, loading |-> FALSE,
   written |-> <<>>, writer |-> 0]

\* The seven state cells, without the bookkeeping of the last step.
Cells(h) ==
  <<h.intentId, h.status, h.error, h.txHash, h.bridgeTxHash, h.executeTxHash, h.loading>>

\* -------------------------------------------------------------------- adapter
\* Mutant: Base Sepolia left out of the list.
supportedChainsSepoliaOnly == <<Sepolia>>

supportedChains == <<Sepolia, BaseSepolia>>
includes(arr, x) == \E i \in 1..Len(arr) : arr[i] = x

\* Mutant: `||` in place of `&&` in `supported`.
checkNexusSupportEither(fromChain, toChain, token) ==
  LET fromSupported == includes(supportedChains, fromChain)
      toSupported == includes(supportedChains, toChain)
  IN  [supported |-> fromSupported \/ toSupported,
       fromChainSupported |-> fromSupported,
       toChainSupported |-> toSupported,
       recommendedToken |-> "USDC",
       warning |-> IF ~fromSupported \/ ~toSupported
                   THEN "One or more chains not yet supported on Nexus testnet. Using simulation mode."
                   ELSE "null"]

checkNexusSupport(fromChain, toChain, token) ==
  LET fromSupported == includes(supportedChains, fromChain)
      toSupported == includes(supportedChains, toChain)
  IN  [supported |-> fromSupported /\ toSupported,
       fromChainSupported |-> fromSupported,
       toChainSupported |-> toSupported,
       recommendedToken |-> "USDC",
       warning |-> IF ~fromSupported \/ ~toSupported
                   THEN "One or more chains not yet supported on Nexus testnet. Using simulation mode."
                   ELSE "null"]

\* a || b on values that are a hash or undefined
Or(a, b) == IF a # Null THEN a ELSE b

\* What nexusClient.bridgeAndExecute can answer for invocation c.
Responses(c) ==
  { [threw |-> t, bridgeTransactionHash |-> b, transactionHash |-> x,
     executeTransactionHash |-> e, success |-> s] :
      t \in BOOLEAN,
      b \in {Null, Hash("backend", "bridge", c)},
      x \in {Null, Hash("backend", "tx", c)},
      e \in {Null, Hash("backend", "execute", c)},
      s \in {"true", "false", "absent"} }
\* The answers that are tried: a throw, an explicit failure, an answer without any
\* hash, and answers with success left out carrying a bridge hash under either
\* name, an execute hash, or both.
ResponsesOffered(c) ==
  { r \in Responses(c) :
      /\ r.threw => (r.bridgeTransactionHash = Null /\ r.transactionHash = Null
                     /\ r.executeTransactionHash = Null /\ r.success = "absent")
      /\ r.success = "false" => (r.bridgeTransactionHash = Null /\ r.transactionHash = Null
                                 /\ r.executeTransactionHash = Null)
      /\ r.success # "true"
      /\ r.transactionHash # Null =>
           (r.bridgeTransactionHash = Null /\ r.executeTransactionHash = Null) }

createRealNexusIntent(c, resp) ==
  IF resp.threw
  THEN [success |-> FALSE, isReal |-> FALSE, error |-> "sdk error",
        simulationReason |-> "Nexus SDK call failed"]
  ELSE LET bridgeTxHash == Or(resp.bridgeTransactionHash, resp.transactionHash)
           executeTxHash == resp.executeTransactionHash
       IN  [success |-> resp.success # "false",
            isReal |-> TRUE,
            intentId |-> Or(bridgeTxHash, Or(executeTxHash, Hash("local", "nexus-real", c))),
            bridgeTxHash |-> bridgeTxHash,
            executeTxHash |-> executeTxHash,
            bridgeSkipped |-> (bridgeTxHash = Null /\ executeTxHash # Null),
            error |-> "null"]

createSimulatedIntent(c) ==
  [success |-> TRUE, isReal |-> FALSE, isSimulation |-> TRUE,
   intentId |-> Hash("simulated", "bridge", c),
   bridgeTxHash |-> Hash("simulated", "bridge", c),
   executeTxHash |-> Hash("simulated", "execute", c),
   bridgeSkipped |-> FALSE,
   simulationNotice |-> "Simulation Mode"]

\* result.f of a loosely typed result: undefined when the object has no field f
Field(result, f) == IF f \in DOMAIN result THEN result[f] ELSE Null

\* ------------------------------------------------------------------- monitors
NoMonitor == [kind |-> "none", pollCount |-> 0, timer |-> "none",
              bridgeHash |-> Null, executeHash |-> Null]

\* A monitor with no timer pending never runs again: its closure is garbage.
Stopped(m) == [NoMonitor EXCEPT !.kind = m.kind]

\* Mutant: `<=` in place of `<` in the three comparisons.
PollPhaseInclusive(pollCount) ==
  IF pollCount <= PendingBelow THEN "pending"
  ELSE IF pollCount <= BridgingBelow THEN "bridging"
  ELSE IF pollCount <= ExecutingBelow THEN "executing"
  ELSE "completed"

PollPhase(pollCount) ==
  IF pollCount < PendingBelow THEN "pending"
  ELSE IF pollCount < BridgingBelow THEN "bridging"
  ELSE IF pollCount < ExecutingBelow THEN "executing"
  ELSE "completed"

\* Mutant: the completed branch falls through to the scheduling code.
PollNeverReturns(phase) == FALSE

\* the `return` of the completed branch of poll
PollReturns(phase) == phase = "completed"

\* One run of poll() of the monitor m of invocation c, on hook cells h.
poll(h, m, c) ==
  LET n == m.pollCount + 1
      phase == PollPhase(n)
      h1 == setStatus(h, phase, c)
      h2 == IF phase = "completed" THEN setTxHash(h1, Hash("synthesized", "tx", c)) ELSE h1
  IN  IF PollReturns(phase)
      THEN [h |-> h2, m |-> Stopped(m)]
      ELSE IF n < maxPolls
      THEN [h |-> h2, m |-> [m EXCEPT !.pollCount = n, !.timer = "poll"]]
      ELSE [h |-> setError(setStatus(h2, "failed", c), "Intent timed out"),
            m |-> Stopped(m)]

monitorIntent(h, c) ==
  poll(h, [NoMonitor EXCEPT !.kind = "simulated"], c)

monitorRealIntent(h, c, result) ==
  LET m0 == [NoMonitor EXCEPT !.kind = "real"]
      bridgeSkipped == "bridgeSkipped" \in DOMAIN result /\ result.bridgeSkipped
      executeTransactionHash == Field(result, "executeTransactionHash")
      bridgeTransactionHash == Field(result, "bridgeTransactionHash")
  IN  IF bridgeSkipped
      THEN LET h1 == setStatus(h, "executing", c)
           IN  IF executeTransactionHash # Null
               THEN [h |-> setStatus(setTxHash(setExecuteTxHash(h1, executeTransactionHash),
                                               executeTransactionHash), "completed", c),
                     m |-> Stopped(m0)]
               ELSE [h |-> h1, m |-> Stopped(m0)]
      ELSE IF bridgeTransactionHash # Null
      THEN [h |-> setStatus(h, "bridging", c),
            m |-> [m0 EXCEPT !.timer = "bridge30s", !.bridgeHash = bridgeTransactionHash,
                             !.executeHash = executeTransactionHash]]
      ELSE [h |-> h, m |-> Stopped(m0)]

\* The 30 s callback of monitorRealIntent.
bridgeTimer(h, m, c) ==
  LET h1 == setStatus(h, "executing", c)
  IN  IF m.executeHash # Null
      THEN [h |-> h1, m |-> [m EXCEPT !.timer = "execute10s"]]
      ELSE [h |-> setTxHash(setStatus(h1, "completed", c), m.bridgeHash),
            m |-> Stopped(m)]

\* The 10 s callback of monitorRealIntent.
executeTimer(h, m, c) ==
  [h |-> setTxHash(setExecuteTxHash(setStatus(h, "completed", c), m.executeHash), m.executeHash),
   m |-> Stopped(m)]

\* ------------------------------------------------------ createBridgeAndExecute
\* address, walletClient, contract: what the hook was rendered with at the call;
\* cur: currentChainDecimal; walletReq, backendReq: whether the invocation has
\* issued a request to the wallet provider / to the Nexus SDK; backend: what the
\* SDK answered; switchRejected: the provider rejected wallet_switchEthereumChain.
NewCall == [pc |-> "new", address |-> TRUE, walletClient |-> TRUE, contract |-> TRUE,
            from |-> 0, to |-> 0, amount |-> "", cur |-> 0,
            walletReq |-> FALSE, backendReq |-> FALSE, backend |-> "none",
            switchRejected |-> FALSE]
DoneCall == [NewCall EXCEPT !.pc = "done"]

NoReturn == [id |-> Null, status |-> "none", bridgeTxHash |-> Null,
             executeTxHash |-> Null, isReal |-> FALSE]

NothingSettled ==
  [call |-> 0, outcome |-> "none", inputs |-> NewCall, ret |-> NoReturn,
   monitor |-> "none", monitorStarted |-> FALSE, bridgeSkipped |-> FALSE]

\* Mutant: the memeVaultContract?.address check left out.
PreconditionsWithoutContract(address, walletClient, contract) ==
  address /\ walletClient

PreconditionsHold(address, walletClient, contract) ==
  address /\ walletClient /\ contract

\* viem's parseEther throws on a string that is no decimal number
parseEtherThrows(amount) == amount \notin DecimalAmounts

\* The outer catch/finally: status failed, the error recorded, the promise rejected.
Fail(c, rec, h, message) ==
  /\ hook' = setLoading(setError(setStatus(h, "failed", c), message), FALSE)
  /\ calls' = [calls EXCEPT ![c] = DoneCall]
  /\ settled' = [NothingSettled EXCEPT !.call = c, !.outcome = "rejected", !.inputs = rec]
  /\ UNCHANGED mon

\* Lines 288-320 and the finally: record the identifiers, start the monitor, resolve.
Finish(c, rec, h, result, isRealIntent) ==
  LET shown == IF result.bridgeSkipped THEN "executing" ELSE "bridging"
      h1 == setStatus(setExecuteTxHash(setBridgeTxHash(setIntentId(h, result.intentId),
                        result.bridgeTxHash), result.executeTxHash), shown, c)
      started == IF isRealIntent THEN monitorRealIntent(h1, c, result)
                 ELSE monitorIntent(h1, c)
  IN  /\ hook' = setLoading(started.h, FALSE)
      /\ mon' = [mon EXCEPT ![c] = started.m]
      /\ calls' = [calls EXCEPT ![c] = DoneCall]
      /\ settled' = [NothingSettled EXCEPT
                       !.call = c, !.outcome = "resolved", !.inputs = rec,
                       !.ret = [id |-> result.intentId, status |-> shown,
                                bridgeTxHash |-> result.bridgeTxHash,
                                executeTxHash |-> result.executeTxHash,
                                isReal |-> isRealIntent],
                       !.bridgeSkipped = result.bridgeSkipped,
                       !.monitor = started.m.kind,
                       !.monitorStarted = (started.m.timer # "none")]

\* The invocation suspends at its next await; no cell is written.
Continue(c, rec) ==
  /\ calls' = [calls EXCEPT ![c] = rec]
  /\ hook' = Fresh
  /\ settled' = NothingSettled
  /\ UNCHANGED mon

\* Mutant: the inner catch rethrows to the outer catch.
SdkErrorRethrow(c, rec, h) ==
  Fail(c, rec, h, "sdk error")

\* The inner catch (sdkError): fall back to a simulated intent.
SdkErrorFallback(c, rec, h) ==
  Finish(c, rec, h, createSimulatedIntent(c), FALSE)

\* createBridgeAndExecute(params), called while the hook is rendered with
\* `render`: the run from the entry to the first await (or to the throw).
createBridgeAndExecute(render, req, amount) ==
  IF ~PreconditionsHold(render[1], render[2], render[3])
  THEN /\ settled' = [NothingSettled EXCEPT
                        !.outcome = "rejected",
                        !.inputs = [NewCall EXCEPT !.address = render[1],
                                      !.walletClient = render[2], !.contract = render[3]]]
       /\ hook' = Fresh
       /\ UNCHANGED <<calls, mon, nCalls>>
  ELSE /\ nCalls < MaxCalls
       /\ LET c == nCalls + 1
              rec == [NewCall EXCEPT !.address = render[1], !.walletClient = render[2],
                        !.contract = render[3],
                        !.from = req[1], !.to = req[2], !.amount = amount]
              h == setError(setStatus(setLoading(Fresh, TRUE), "creating", c), "null")
          IN  /\ nCalls' = c
              /\ IF parseEtherThrows(amount)
                 THEN Fail(c, rec, h, "invalid decimal number")
                 ELSE /\ hook' = h
                      /\ calls' = [calls EXCEPT ![c] = [rec EXCEPT !.pc = "support"]]
                      /\ settled' = NothingSettled
                      /\ UNCHANGED mon

\* A component that renders the hook calls createBridgeAndExecute.
Invoke ==
  /\ \E render \in Renders, req \in Requests, amount \in Amounts :
       createBridgeAndExecute(render, req, amount)
  /\ UNCHANGED <<walletChain, nexusInitialized, sessionChain, probe, modal, vault>>

\* After `await checkNexusSupport(...)`.
SupportChecked(c) ==
  /\ calls[c].pc = "support"
  /\ LET rec == calls[c]
         support == checkNexusSupport(rec.from, rec.to, "token")
     IN  IF support.supported
         THEN Continue(c, [rec EXCEPT !.pc = "chain1", !.walletReq = TRUE])
         ELSE Finish(c, rec, Fresh, createSimulatedIntent(c), FALSE)
  /\ UNCHANGED <<nCalls, walletChain, nexusInitialized, sessionChain, probe, modal, vault>>

\* Lines 254-270 once the wallet is on params.fromChain: initialize the SDK if
\* needed, else call the backend.
ProceedOnCorrectNetwork(c, rec) ==
  IF ~nexusInitialized
  THEN Continue(c, [rec EXCEPT !.pc = "init", !.backendReq = TRUE])
  ELSE Continue(c, [rec EXCEPT !.pc = "bridge", !.backendReq = TRUE])

\* Mutant: the comparison with params.fromChain never finds a difference.
NeverOnWrongNetwork(currentChainDecimal, fromChain) == FALSE

\* `currentChainDecimal !== params.fromChain` (lines 225 and 247)
OnWrongNetwork(currentChainDecimal, fromChain) == currentChainDecimal # fromChain

\* After `await fetchCurrentChain()` (line 221 or line 245).
ChainRead(c) ==
  /\ calls[c].pc \in {"chain1", "chain2"}
  /\ \E ok \in BOOLEAN :
       LET rec == [calls[c] EXCEPT !.cur = IF ok THEN walletChain ELSE @]
       IN  IF ~ok
           THEN SdkErrorFallback(c, rec, Fresh)
           ELSE IF ~OnWrongNetwork(rec.cur, rec.from)
           THEN ProceedOnCorrectNetwork(c, rec)
           ELSE IF rec.pc = "chain1"
           THEN Continue(c, [rec EXCEPT !.pc = "switch1"])
           ELSE SdkErrorFallback(c, rec, Fresh)
  /\ UNCHANGED <<nCalls, walletChain, nexusInitialized, sessionChain, probe, modal, vault>>

\* After `await switchChainAsync(...)` (wagmi).
SwitchReturned(c) ==
  /\ calls[c].pc = "switch1"
  /\ \E ok \in BOOLEAN, switched \in BOOLEAN :
       /\ walletChain' = IF ok /\ switched THEN calls[c].from ELSE walletChain
       /\ Continue(c, [calls[c] EXCEPT !.pc = IF ok THEN "chain2" ELSE "switch2"])
  /\ UNCHANGED <<nCalls, nexusInitialized, sessionChain, probe, modal, vault>>

\* After `await provider.request({method: "wallet_switchEthereumChain"})`.
ProviderSwitchReturned(c) ==
  /\ calls[c].pc = "switch2"
  /\ \E ok \in BOOLEAN, switched \in BOOLEAN :
       /\ walletChain' = IF ok /\ switched THEN calls[c].from ELSE walletChain
       /\ Continue(c, [calls[c] EXCEPT !.pc = "chain2", !.switchRejected = ~ok])
  /\ UNCHANGED <<nCalls, nexusInitialized, sessionChain, probe, modal, vault>>

\* After `await initializeNexus(provider)`.
InitReturned(c) ==
  /\ calls[c].pc = "init"
  /\ \E ok \in BOOLEAN :
       IF ok
       THEN /\ nexusInitialized' = TRUE
            /\ sessionChain' = calls[c].from
            /\ Continue(c, [calls[c] EXCEPT !.pc = "bridge"])
       ELSE /\ SdkErrorFallback(c, [calls[c] EXCEPT !.backend = "initThrew"], Fresh)
            /\ UNCHANGED <<nexusInitialized, sessionChain>>
  /\ UNCHANGED <<nCalls, walletChain, probe, modal, vault>>

\* Lines 272-277: what the facade makes of createRealNexusIntent's outcome.
AfterRealIntent(c, rec, h, outcome) ==
  LET isRealIntent == outcome.isReal
      result == IF ~outcome.success THEN createSimulatedIntent(c) ELSE outcome
  IN  Finish(c, rec, h, result, isRealIntent)

\* After `await nexusClient.bridgeAndExecute(...)` inside createRealNexusIntent.
BridgeReturned(c) ==
  /\ calls[c].pc = "bridge"
  /\ \E resp \in ResponsesOffered(c) :
       LET rec == [calls[c] EXCEPT !.backend =
                     IF resp.threw THEN "threw"
                     ELSE IF resp.success = "false" THEN "unsuccessful" ELSE "answered"]
       IN  AfterRealIntent(c, rec, Fresh, createRealNexusIntent(c, resp))
  /\ UNCHANGED <<nCalls, walletChain, nexusInitialized, sessionChain, probe, modal, vault>>

\* A setTimeout callback of the monitor of invocation c fires.
TimerFire(c) ==
  /\ mon[c].timer # "none"
  /\ LET next == CASE mon[c].timer = "poll" -> poll(Fresh, mon[c], c)
                    [] mon[c].timer = "bridge30s" -> bridgeTimer(Fresh, mon[c], c)
                    [] OTHER -> executeTimer(Fresh, mon[c], c)
     IN  /\ hook' = next.h
         /\ mon' = [mon EXCEPT ![c] = next.m]
  /\ settled' = NothingSettled
  /\ UNCHANGED <<calls, nCalls, walletChain, nexusInitialized, sessionChain, probe, modal, vault>>

reset ==
  /\ hook' = setLoading(setTxHash(setError(setStatus(setIntentId(Fresh, Null), "idle", 0),
                                          "null"), Null), FALSE)
  /\ settled' = NothingSettled
  /\ UNCHANGED <<calls, mon, nCalls, walletChain, nexusInitialized, sessionChain, probe, modal, vault>>

\* ------------------------------------------------------------ AISuggestionModal
\* isConfirming, isSwitchingNetwork: the modal's cells. pc: where
\* handleCrossChainConfirm is suspended. source: sourceChainId. attempts: the loop
\* counter. seen: the chain id the last eth_chainId answered. alert: the alert
\* shown by the last step. called: the last step called createBridgeAndExecute.
\* isOpen, chain: the props isOpen and deposit.chain ("" when deposit is null).
\* depositing: the page's handleAIConfirm, started by onConfirm, has not returned.
NoAlert == [kind |-> "none", message |-> <<"", 0, 0>>]

InitModal ==
  [isConfirming |-> FALSE, isSwitchingNetwork |-> FALSE, pc |-> "closed",
   source |-> 0, attempts |-> 0, seen |-> 0, alert |-> NoAlert, called |-> FALSE,
   isOpen |-> FALSE, chain |-> "", depositing |-> FALSE]

\* The chains the deposit form offers.
DepositChains == {"Base", "Sepolia"}

nexusIsPending(nexusStatus) ==
  nexusStatus \in {"creating", "pending", "bridging", "executing"}

\* Mutant: the timeline is shown only while the intent is in progress.
ShowsTimelineWhilePending(nexusStatus) == nexusIsPending(nexusStatus)

\* `if (nexusStatus !== "idle")`: the timeline replaces the suggestion.
ShowsTimeline(nexusStatus) == nexusStatus # "idle"

\* Which of its four returns the component renders.
View ==
  IF ~modal.isOpen \/ modal.chain = "" THEN "none"
  ELSE IF modal.isSwitchingNetwork THEN "switching"
  ELSE IF ShowsTimeline(hook.status) THEN "timeline"
  ELSE "suggestion"

\* shouldSuggestCrossChain: the cross-chain button is rendered.
shouldSuggestCrossChain == modal.chain # "Base"

\* The modal as the step finds it: what the previous step showed is gone.
Quiet == [modal EXCEPT !.alert = NoAlert, !.called = FALSE]

\* A step of the handler that touches neither the hook's cells nor an invocation.
ModalOnly(m) ==
  /\ modal' = m
  /\ hook' = Fresh
  /\ settled' = NothingSettled
  /\ UNCHANGED <<calls, mon, nCalls>>

\* Mutant: the catch leaves isConfirming set.
SwitchErrorKeepsConfirming(m, code, message) ==
  [m EXCEPT !.isSwitchingNetwork = FALSE, !.pc = "closed",
            !.alert = [kind |-> IF code = 4902 THEN "network not found"
                                ELSE IF code = 4001 THEN "must switch"
                                ELSE "failed to switch",
                       message |-> message]]

\* The catch (switchError) of handleCrossChainConfirm: both flags cleared, an alert
\* chosen by the error's code, return.
SwitchError(m, code, message) ==
  [m EXCEPT !.isSwitchingNetwork = FALSE, !.isConfirming = FALSE, !.pc = "closed",
            !.alert = [kind |-> IF code = 4902 THEN "network not found"
                                ELSE IF code = 4001 THEN "must switch"
                                ELSE "failed to switch",
                       message |-> message]]

\* STEP 2: `await createBridgeAndExecute({fromChain: sourceChainId, toChain:
\* destChainId, ...})`; a rejection before the first await reaches the outer
\* catch at once, which clears isConfirming.
CreateIntent(m) ==
  \E render \in Renders, amount \in Amounts :
    /\ createBridgeAndExecute(render, <<m.source, BaseSepolia>>, amount)
    /\ modal' = IF settled'.outcome = "rejected"
                THEN [m EXCEPT !.called = TRUE, !.pc = "closed", !.isConfirming = FALSE]
                ELSE [m EXCEPT !.called = TRUE, !.pc = "awaiting"]

\* A click on the cross-chain button (disabled while isConfirming) up to the
\* first await. currentChainId is wagmi's chain?.id at the last render.
ModalConfirm ==
  /\ View = "suggestion" /\ shouldSuggestCrossChain
  /\ modal.pc = "closed" /\ ~modal.isConfirming
  /\ \E currentChainId \in Chains, provider \in BOOLEAN :
       LET sourceChainId == IF modal.chain = "Base" THEN BaseSepolia ELSE Sepolia
           m == [Quiet EXCEPT !.isConfirming = TRUE, !.source = sourceChainId,
                              !.attempts = 0, !.seen = 0]
       IN  IF currentChainId = sourceChainId
           THEN CreateIntent(m)
           ELSE IF ~provider
           THEN ModalOnly(SwitchError(m, 0, <<"No wallet provider found", 0, 0>>))
           ELSE ModalOnly([m EXCEPT !.isSwitchingNetwork = TRUE, !.pc = "switch"])
  /\ UNCHANGED <<walletChain, nexusInitialized, sessionChain, probe, vault>>

\* After `await provider.request({method: "wallet_switchEthereumChain"})`.
\* code 0: the request resolved; the wallet may not have moved yet.
ModalSwitchReturned ==
  /\ modal.pc = "switch"
  /\ \E code \in {0, 4001, 4902, -32603}, switched \in BOOLEAN :
       IF code = 0
       THEN /\ walletChain' = IF switched THEN modal.source ELSE walletChain
            /\ ModalOnly([Quiet EXCEPT !.pc = "sleep"])
       ELSE /\ UNCHANGED walletChain
            /\ ModalOnly(SwitchError(Quiet, code, <<"switch request failed", 0, 0>>))
  /\ UNCHANGED <<nexusInitialized, sessionChain, probe, vault>>

\* After `await new Promise(resolve => setTimeout(resolve, 500))`: attempts++ and
\* the eth_chainId request of the loop.
ModalPollTimer ==
  /\ modal.pc = "sleep"
  /\ ModalOnly([Quiet EXCEPT !.attempts = @ + 1, !.pc = "read"])
  /\ UNCHANGED <<walletChain, nexusInitialized, sessionChain, probe, vault>>

\* Mutant: `<=` in the loop condition, one poll too many.
LoopContinuesOnceMore(attempts) == attempts <= maxAttempts

\* `attempts < maxAttempts` of the while condition (switchCompleted is false here)
LoopContinues(attempts) == attempts < maxAttempts

\* After `await provider.request({method: "eth_chainId"})` in the loop. The
\* wallet may have completed the switch by now.
ModalChainRead ==
  /\ modal.pc = "read"
  /\ \E ok \in BOOLEAN, arrived \in BOOLEAN :
       LET now == IF arrived THEN modal.source ELSE walletChain
           m == [Quiet EXCEPT !.seen = now]
       IN  /\ walletChain' = now
           /\ IF ~ok
              THEN ModalOnly(SwitchError(Quiet, -32603, <<"eth_chainId failed", 0, 0>>))
              ELSE IF now = modal.source
              THEN ModalOnly([m EXCEPT !.pc = "deinit"])
              ELSE IF LoopContinues(modal.attempts)
              THEN ModalOnly([m EXCEPT !.pc = "sleep"])
              ELSE ModalOnly([m EXCEPT !.pc = "final"])
  /\ UNCHANGED <<nexusInitialized, sessionChain, probe, vault>>

\* After the eth_chainId request made when the loop gave up: the timeout error.
ModalFinalRead ==
  /\ modal.pc = "final"
  /\ \E ok \in BOOLEAN, arrived \in BOOLEAN :
       LET finalChainDecimal == IF arrived THEN modal.source ELSE walletChain
       IN  /\ walletChain' = finalChainDecimal
           /\ IF ~ok
              THEN ModalOnly(SwitchError(Quiet, -32603, <<"eth_chainId failed", 0, 0>>))
              ELSE ModalOnly(SwitchError([Quiet EXCEPT !.seen = finalChainDecimal], 0,
                               <<"Network switch timed out", finalChainDecimal, modal.source>>))
  /\ UNCHANGED <<nexusInitialized, sessionChain, probe, vault>>

\* After `await deinitNexus()` (its failure is logged and ignored), up to the
\* await of initializeNexus(provider), which returns without initializing when
\* the SDK is still initialized.
ModalDeinitReturned ==
  /\ modal.pc = "deinit"
  /\ \E ok \in BOOLEAN :
       /\ nexusInitialized' = IF ok THEN FALSE ELSE nexusInitialized
       /\ sessionChain' = IF ok THEN 0 ELSE sessionChain
       /\ ModalOnly([Quiet EXCEPT !.pc = IF nexusInitialized' THEN "initSkipped" ELSE "init"])
  /\ UNCHANGED <<walletChain, probe, vault>>

\* After `await initializeNexus(provider)`: on success isSwitchingNetwork is
\* cleared and STEP 2 follows.
ModalInitReturned ==
  /\ modal.pc \in {"init", "initSkipped"}
  /\ \E ok \in BOOLEAN :
       IF modal.pc = "init" /\ ~ok
       THEN /\ ModalOnly(SwitchError(Quiet, 0, <<"initialize failed", 0, 0>>))
            /\ UNCHANGED <<nexusInitialized, sessionChain>>
       ELSE /\ nexusInitialized' = TRUE
            /\ sessionChain' = IF modal.pc = "init" THEN modal.source ELSE sessionChain
            /\ CreateIntent([Quiet EXCEPT !.isSwitchingNetwork = FALSE])
  /\ UNCHANGED <<walletChain, probe, vault>>

\* -------------------------------------------------------------------- MemeVault
\* Accounts that call the contract, and token addresses (0 is address(0)).
Users == {"alice", "bob"}
Tokens == {0, 1, 2}
Uint == 0..UintMax

NoTx == [fn |-> "none", sender |-> "", token |-> 0, amount |-> 0, reverted |-> FALSE]

InitVault ==
  [totalDeposits |-> [t \in Tokens |-> 0],
   userDeposits |-> [u \in Users |-> [t \in Tokens |-> 0]],
   tx |-> NoTx]

\* A transaction that reverts leaves storage as it was.
Revert(fn, sender, token, amount) ==
  [vault EXCEPT !.tx = [fn |-> fn, sender |-> sender, token |-> token,
                        amount |-> amount, reverted |-> TRUE]]

\* Mutant: deposit leaves totalDeposits alone.
creditUserOnly(v, sender, token, amount) ==
  [v EXCEPT !.userDeposits[sender][token] = @ + amount]

\* `totalDeposits[token] += amount; userDeposits[msg.sender][token] += amount;`
credit(v, sender, token, amount) ==
  [v EXCEPT !.totalDeposits[token] = @ + amount,
            !.userDeposits[sender][token] = @ + amount]

\* `userDeposits[msg.sender][token] -= amount; totalDeposits[token] -= amount;`
debit(v, sender, token, amount) ==
  [v EXCEPT !.userDeposits[sender][token] = @ - amount,
            !.totalDeposits[token] = @ - amount]

\* deposit(token, amount, chain) sent by msg.sender. transferred: whether
\* safeTransferFrom went through. Checked arithmetic reverts on overflow.
deposit ==
  /\ \E sender \in Users, token \in Tokens, amount \in Uint, transferred \in BOOLEAN :
       vault' =
         IF amount = 0 \/ token = 0 \/ ~transferred
         THEN Revert("deposit", sender, token, amount)
         ELSE IF \/ vault.totalDeposits[token] + amount > UintMax
                 \/ vault.userDeposits[sender][token] + amount > UintMax
         THEN Revert("deposit", sender, token, amount)
         ELSE [credit(vault, sender, token, amount) EXCEPT
                 !.tx = [fn |-> "deposit", sender |-> sender, token |-> token,
                         amount |-> amount, reverted |-> FALSE]]
  /\ UNCHANGED <<hook, calls, mon, nCalls, settled, walletChain, nexusInitialized,
                 sessionChain, probe, modal>>

\* withdraw(token, amount) sent by msg.sender. transferred: whether safeTransfer
\* went through.
withdraw ==
  /\ \E sender \in Users, token \in Tokens, amount \in Uint, transferred \in BOOLEAN :
       vault' =
         IF vault.userDeposits[sender][token] < amount
         THEN Revert("withdraw", sender, token, amount)
         ELSE IF vault.totalDeposits[token] < amount \/ ~transferred
         THEN Revert("withdraw", sender, token, amount)
         ELSE [debit(vault, sender, token, amount) EXCEPT
                 !.tx = [fn |-> "withdraw", sender |-> sender, token |-> token,
                         amount |-> amount, reverted |-> FALSE]]
  /\ UNCHANGED <<hook, calls, mon, nCalls, settled, walletChain, nexusInitialized,
                 sessionChain, probe, modal>>

\* The page's handleDepositSubmit: the form is submitted and the modal opens.
handleDepositSubmit ==
  /\ ~modal.isOpen
  /\ \E chain \in DepositChains :
       ModalOnly([Quiet EXCEPT !.isOpen = TRUE, !.chain = chain])
  /\ UNCHANGED <<walletChain, nexusInitialized, sessionChain, probe, vault>>

\* onClose: Cancel or the cross of the suggestion, Done under a completed
\* timeline, Close under a timeline that is neither in progress nor completed.
onClose ==
  /\ View = "suggestion" \/ (View = "timeline" /\ ~nexusIsPending(hook.status))
  /\ ModalOnly([Quiet EXCEPT !.isOpen = FALSE])
  /\ UNCHANGED <<walletChain, nexusInitialized, sessionChain, probe, vault>>

\* handleConfirm (deposit on the same chain): onConfirm() starts the page's
\* handleAIConfirm; isConfirming is set and cleared within the same step.
handleConfirm ==
  /\ View = "suggestion" /\ ~modal.isConfirming
  /\ ModalOnly([Quiet EXCEPT !.depositing = TRUE])
  /\ UNCHANGED <<walletChain, nexusInitialized, sessionChain, probe, vault>>

\* The page's handleAIConfirm returns: after a successful deposit it closes the
\* modal and drops the pending deposit, after a failure it only logs.
handleAIConfirmReturned ==
  /\ modal.depositing
  /\ \E ok \in BOOLEAN :
       ModalOnly(IF ok THEN [Quiet EXCEPT !.depositing = FALSE, !.isOpen = FALSE, !.chain = ""]
                 ELSE [Quiet EXCEPT !.depositing = FALSE])
  /\ UNCHANGED <<walletChain, nexusInitialized, sessionChain, probe, vault>>

\* ------------------------------------------------------------- specification
NoProbe == [from |-> 0, to |-> 0, token |-> "", out |-> checkNexusSupport(0, 0, "")]

Init ==
  /\ hook = InitHook
  /\ calls = [c \in CallIds |-> NewCall]
  /\ mon = [c \in CallIds |-> NoMonitor]
  /\ nCalls = 0
  /\ settled = NothingSettled
  /\ walletChain \in Chains
  /\ nexusInitialized = FALSE
  /\ sessionChain = 0
  /\ probe = NoProbe
  /\ modal = InitModal
  /\ vault = InitVault

Next ==
  \/ Invoke
  \/ \E c \in CallIds : SupportChecked(c)
  \/ \E c \in CallIds : ChainRead(c)
  \/ \E c \in CallIds : SwitchReturned(c)
  \/ \E c \in CallIds : ProviderSwitchReturned(c)
  \/ \E c \in CallIds : InitReturned(c)
  \/ \E c \in CallIds : BridgeReturned(c)
  \/ \E c \in CallIds : TimerFire(c)
  \/ reset

Spec == Init /\ [][Next]_vars

\* The hook as the page and AISuggestionModal use it: every invocation comes from
\* handleCrossChainConfirm, and neither the modal nor the page calls reset.
ModalNext ==
  \/ handleDepositSubmit
  \/ onClose
  \/ handleConfirm
  \/ handleAIConfirmReturned
  \/ ModalConfirm
  \/ ModalSwitchReturned
  \/ ModalPollTimer
  \/ ModalChainRead
  \/ ModalFinalRead
  \/ ModalDeinitReturned
  \/ ModalInitReturned
  \/ \E c \in CallIds : SupportChecked(c)
  \/ \E c \in CallIds : ChainRead(c)
  \/ \E c \in CallIds : SwitchReturned(c)
  \/ \E c \in CallIds : ProviderSwitchReturned(c)
  \/ \E c \in CallIds : InitReturned(c)
  \/ \E c \in CallIds : BridgeReturned(c)
  \/ \E c \in CallIds : TimerFire(c)

ModalSpec == Init /\ [][ModalNext]_vars

\* checkNexusSupport on its own, over a wider set of chain ids and tokens.
ProbeChains == {1, 137, Sepolia, BaseSepolia, 421614, 11155420}
ProbeTokens == {"", "USDC", "PEPE"}

CheckSupport ==
  /\ \E fromChain \in ProbeChains, toChain \in ProbeChains, token \in ProbeTokens :
       probe' = [from |-> fromChain, to |-> toChain, token |-> token,
                 out |-> checkNexusSupport(fromChain, toChain, token)]
  /\ UNCHANGED <<hook, calls, mon, nCalls, settled, walletChain, nexusInitialized,
                 sessionChain, modal, vault>>

SupportSpec == Init /\ [][CheckSupport]_vars

\* The MemeVault contract on its own: transactions are atomic and sequential.
VaultNext ==
  \/ deposit
  \/ withdraw

VaultSpec == Init /\ [][VaultNext]_vars

\* The hook with its timers: a callback passed to setTimeout is eventually run.
TimersSpec == Spec /\ \A c \in CallIds : WF_vars(TimerFire(c))

\* ------------------------------------------------------------------- claims
InFlight(c) == calls[c].pc \notin {"new", "done"}
Quiescent == \A c \in CallIds : ~InFlight(c) /\ mon[c].timer = "none"
PreOK(rec) == rec.address /\ rec.walletClient /\ rec.contract
SupportedSet == {11155111, 84532}
FromBackend(x) == x # Null /\ x[1] = "backend"
FromSimulation(x) == x # Null /\ x[1] = "simulated"
BackendFailed(rec) == rec.backend \in {"initThrew", "threw", "unsuccessful"}

\* A sequence of status writes is non-decreasing and nothing follows failed.
Monotonic(seq) ==
  \A i \in 1..(Len(seq) - 1) :
    seq[i] # "failed" /\ StatusRank[seq[i]] <= StatusRank[seq[i + 1]]
\* A step of the facade or the monitor of invocation c.
StepOf(c) == calls'[c] # calls[c] \/ mon'[c] # mon[c]
\* A timer callback of the monitor of invocation c runs.
TimerStep(c) == mon[c].timer # "none" /\ mon'[c] # mon[c]

\* C1: while a single invocation and its monitor run (reset's own write aside),
\* the values written to status, taken after the value status had before the
\* step, never decrease in the order idle < creating < pending < bridging <
\* executing < completed < failed, and nothing is written after failed.
C1_StatusWritesMonotonic ==
  [][(nCalls' = 1 /\ hook'.writer = 1)
       => Monotonic(<<hook.status>> \o hook'.written)]_vars

\* C2: a timer callback of a monitor whose invocation has been followed by a
\* later invocation writes neither status, txHash, executeTxHash nor error.
C2_SupersededMonitorSilent ==
  [][\A c \in CallIds :
       (TimerStep(c) /\ nCalls > c)
         => /\ hook'.written = <<>>
            /\ hook'.txHash = hook.txHash
            /\ hook'.executeTxHash = hook.executeTxHash
            /\ hook'.error = hook.error]_vars

\* C3: once an invocation's facade or monitor has written completed or failed to
\* status, a step that writes status or changes intentId, bridgeTxHash or
\* executeTxHash is reset() or a step of an invocation made later than the one
\* that wrote the terminal status; in particular it is no step of that
\* invocation itself, and no timer of an earlier invocation's monitor.
C3_TerminalIsFinal ==
  [][(/\ hook.status \in Terminal /\ hook.writer # 0
      /\ \/ hook'.written # <<>>
         \/ hook'.intentId # hook.intentId
         \/ hook'.bridgeTxHash # hook.bridgeTxHash
         \/ hook'.executeTxHash # hook.executeTxHash)
       => \/ hook'.writer = 0
          \/ hook'.writer > hook.writer]_vars
\* C3, the part about the invocation itself: after an invocation has written a
\* terminal status, no step of its own facade or monitor writes status or
\* changes the identifiers.
C3_OwnStepsSilentAfterTerminal ==
  [][\A c \in CallIds :
       (hook.status \in Terminal /\ hook.writer = c /\ StepOf(c))
         => /\ hook'.written = <<>>
            /\ hook'.intentId = hook.intentId
            /\ hook'.bridgeTxHash = hook.bridgeTxHash
            /\ hook'.executeTxHash = hook.executeTxHash]_vars

\* C4: when no invocation is in flight and no timer is pending, so that nothing
\* will write status again, a status last written by an invocation is completed
\* or failed.
C4_QuiescentIsTerminal ==
  (Quiescent /\ hook.writer # 0) => hook.status \in Terminal

\* C5: a resolved invocation returns isReal = true exactly when one of the hashes
\* it returns was taken from the backend's answer.
C5_IsRealIffBackendHash ==
  settled.outcome = "resolved"
    => (settled.ret.isReal <=>
          (FromBackend(settled.ret.bridgeTxHash) \/ FromBackend(settled.ret.executeTxHash)))

\* C6: an invocation whose SDK initialization or bridgeAndExecute threw, or whose
\* bridgeAndExecute answered success: false, resolves with status not failed,
\* with the identifiers of createSimulatedIntent recorded, and with a monitor
\* running (a timer pending).
C6_BackendFailureAbsorbed ==
  BackendFailed(settled.inputs)
    => /\ settled.outcome = "resolved"
       /\ hook.status # "failed"
       /\ FromSimulation(hook.intentId)
       /\ FromSimulation(hook.bridgeTxHash)
       /\ FromSimulation(hook.executeTxHash)
       /\ settled.monitorStarted

C8_PreconditionFailureChangesNothing ==
  [][/\ \A c \in CallIds : InFlight(c)' => PreOK(calls'[c])
     /\ ~PreOK(settled'.inputs)
          => /\ settled'.outcome = "rejected"
             /\ Cells(hook') = Cells(hook)
             /\ hook'.written = <<>>
             /\ calls' = calls /\ mon' = mon /\ nCalls' = nCalls
             /\ ~settled'.inputs.walletReq /\ ~settled'.inputs.backendReq]_vars
C8_Witness ==
  /\ settled.outcome = "rejected" /\ ~settled.inputs.contract
  /\ hook.status = "bridging" /\ hook.intentId # Null

ResetStep == hook'.written = <<"idle">>

\* C11: reset() called when status is completed or failed leaves every cell at
\* its initial value (status idle, intentId, txHash, bridgeTxHash, executeTxHash
\* and error null, loading false), and reset() called right after a reset()
\* changes no cell.
C11_ResetRestoresInitial ==
  [][ResetStep =>
       /\ hook.status \in Terminal => Cells(hook') = Cells(InitHook)
       /\ (hook.status = "idle" /\ hook.writer = 0) => Cells(hook') = Cells(hook)]_vars

\* The invocation settled by the last step resolved with the outcome that
\* createRealNexusIntent built from an answer of the backend.
RealOutcome == settled.outcome = "resolved" /\ settled.inputs.backend = "answered"

\* C12: when a real intent was created for a request with fromChain = toChain,
\* its outcome has bridgeSkipped = true and the status the facade sets and
\* returns is executing.
C12_SameChainSkipsBridge ==
  (RealOutcome /\ settled.inputs.from = settled.inputs.to)
    => (settled.bridgeSkipped /\ settled.ret.status = "executing")

\* C13: when a real intent whose outcome has bridgeSkipped = true (so it carries
\* an execute hash) is started, the facade and the monitor write executing and
\* then completed to status, never bridging, and executeTxHash and txHash are
\* that execute hash.
C13_SkippedBridgeCompletes ==
  (RealOutcome /\ settled.bridgeSkipped)
    => /\ \A i \in 1..Len(hook.written) : hook.written[i] # "bridging"
       /\ hook.written[1] = "executing"
       /\ hook.status = "completed"
       /\ FromBackend(settled.ret.executeTxHash)
       /\ hook.executeTxHash = settled.ret.executeTxHash
       /\ hook.txHash = settled.ret.executeTxHash

\* C14: when a real intent that is not bridge-skipped and whose outcome carries
\* a bridge hash from the backend is started, status is bridging and the real
\* monitor has its first fixed wait (30 s) pending, after which it writes
\* executing and goes on to completed.
C14_RealMonitorWaitsThenExecutes ==
  (RealOutcome /\ ~settled.bridgeSkipped /\ FromBackend(settled.ret.bridgeTxHash))
    => /\ hook.status = "bridging"
       /\ settled.monitor = "real"
       /\ mon[settled.call].timer = "bridge30s"
       /\ mon[settled.call].bridgeHash = settled.ret.bridgeTxHash
       /\ bridgeTimer(hook, mon[settled.call], settled.call).h.status
             \in {"executing", "completed"}

\* A run of poll() of the simulated monitor of invocation c: the first one, made
\* by the facade when it starts the monitor, or one made by the 5 s timer.
PollStep(c) ==
  \/ mon[c].kind = "none" /\ mon'[c].kind = "simulated"
  \/ mon[c].kind = "simulated" /\ mon[c].timer = "poll" /\ mon'[c] # mon[c]
\* The number of the tick that PollStep(c) runs.
Tick(c) == mon[c].pollCount + 1

\* C15 as stated: the poll of tick n writes pending on the first 3 ticks
\* (n = 1, 2, 3), bridging from there until tick 10, executing until tick 12 and
\* completed from tick 12.
C15_PendingForThreeTicks ==
  [][\A c \in CallIds :
       PollStep(c) =>
         hook'.status = CASE Tick(c) \in 1..3 -> "pending"
                          [] Tick(c) \in 4..9 -> "bridging"
                          [] Tick(c) \in 10..11 -> "executing"
                          [] OTHER -> "completed"]_vars
\* C15 amended: the poll of tick n writes pending while n is below 3 (ticks 1
\* and 2), bridging while n is below 10 (ticks 3..9), executing while n is below
\* 12 (ticks 10 and 11) and completed on tick 12, after which no tick follows.
C15_ThresholdsAreExclusive ==
  [][\A c \in CallIds :
       PollStep(c) =>
         /\ Tick(c) \in 1..12
         /\ hook'.status = CASE Tick(c) \in 1..2 -> "pending"
                             [] Tick(c) \in 3..9 -> "bridging"
                             [] Tick(c) \in 10..11 -> "executing"
                             [] OTHER -> "completed"
         /\ hook'.written[Len(hook'.written)] = hook'.status
         /\ mon'[c].timer = IF Tick(c) = 12 THEN "none" ELSE "poll"]_vars
C15_Witness ==
  \E c \in CallIds :
    /\ mon[c].kind = "simulated" /\ mon[c].pollCount = 3 /\ mon[c].timer = "poll"
    /\ hook.status = "bridging" /\ hook.writer = c /\ hook.written = <<"bridging">>

\* C16, its premise: a simulated monitor whose poll counter has reached maxPolls
\* with status not completed. The completed branch of poll() returns at tick
\* ExecutingBelow, so no monitor has a counter at or beyond it while a timer is
\* pending, and no step writes the timeout error.
C16_BudgetNeverReached ==
  /\ \A c \in CallIds : mon[c].pollCount < ExecutingBelow
  /\ hook.error # "Intent timed out"

\* Invocation c calls nexusClient.bridgeAndExecute in this step.
CallsBackend(c) == calls[c].pc # "bridge" /\ calls'[c].pc = "bridge"

\* C20: every bridgeAndExecute call is made on a session that was initialized on
\* the chain the wallet is on at the call (params.fromChain): a session
\* initialized before a chain switch has been torn down and initialized again.
C20_BackendCallUsesFreshSession ==
  [][\A c \in CallIds :
       CallsBackend(c) => (nexusInitialized' /\ sessionChain' = calls'[c].from)]_vars

\* The handler of the modal gives up the chain switch with the timeout error.
SwitchTimesOut == modal.pc = "final" /\ modal'.alert.message[1] = "Network switch timed out"

\* C17: while the modal's eth_chainId polls do not see the target chain, each
\* poll follows a 500 ms timer and counts one attempt, there are at most 30, and
\* after the 30th the handler reads the chain once more and fails with the
\* timeout error that names the chain it read last and the target, clears its
\* flags and returns without calling createBridgeAndExecute.
C17_SwitchPollingIsBounded ==
  [][/\ modal'.attempts <= maxAttempts
     /\ (modal'.pc = "read" /\ modal.pc # "read")
          => (modal.pc = "sleep" /\ modal'.attempts = modal.attempts + 1)
     /\ (modal.pc = "read" /\ modal'.pc = "sleep")
          => (walletChain' # modal.source /\ modal.attempts < maxAttempts)
     /\ (modal.pc = "read" /\ modal'.pc = "final")
          => (walletChain' # modal.source /\ modal.attempts = maxAttempts)
     /\ (modal.pc = "final" /\ modal'.pc # "final")
          => /\ modal'.pc = "closed"
             /\ modal'.alert.kind = "failed to switch"
             /\ ~modal'.isConfirming /\ ~modal'.isSwitchingNetwork
             /\ ~modal'.called
             /\ nCalls' = nCalls /\ calls' = calls /\ Cells(hook') = Cells(hook)
     /\ SwitchTimesOut
          => modal'.alert.message = <<"Network switch timed out", walletChain', modal.source>>]_vars
C17_Witness ==
  /\ modal.pc = "closed" /\ modal.attempts = maxAttempts
  /\ modal.alert.message[1] = "Network switch timed out"
  /\ modal.alert.message[2] # modal.source /\ modal.alert.message[2] = walletChain
  /\ nCalls = 0

\* The modal's wallet_switchEthereumChain request is rejected with code 4001.
ModalSwitchRejected == modal.pc = "switch" /\ modal'.alert.kind = "must switch"

\* C18 as stated: when the provider rejects wallet_switchEthereumChain with code
\* 4001, the orchestration goes on to a simulated intent, so createBridgeAndExecute
\* is called.
C18_RejectedSwitchFallsBackToSimulation ==
  [][ModalSwitchRejected => modal'.called]_vars
\* C18 amended: (modal) a 4001 rejection of the modal's switch request ends the
\* handler with the user-rejected alert, both flags cleared, no retry, no SDK
\* initialization and no createBridgeAndExecute call, so no intent is created;
\* (hook) an invocation whose wallet_switchEthereumChain request was rejected makes
\* no further switch request and no backend request, and resolves with a
\* simulated intent and the simulated monitor running.
C18_RejectedSwitchStopsModalOrSimulates ==
  [][/\ ModalSwitchRejected
          => /\ modal'.pc = "closed"
             /\ ~modal'.isConfirming /\ ~modal'.isSwitchingNetwork
             /\ ~modal'.called
             /\ nCalls' = nCalls /\ calls' = calls /\ mon' = mon
             /\ Cells(hook') = Cells(hook)
             /\ walletChain' = walletChain
             /\ nexusInitialized' = nexusInitialized /\ sessionChain' = sessionChain
     /\ \A c \in CallIds :
          (calls'[c].switchRejected /\ calls'[c].pc # "done")
            => (calls'[c].pc = "chain2" /\ ~calls'[c].backendReq)
     /\ (settled'.call # 0 /\ settled'.inputs.switchRejected)
          => /\ settled'.outcome = "resolved"
             /\ ~settled'.ret.isReal
             /\ ~settled'.inputs.backendReq
             /\ FromSimulation(hook'.intentId)
             /\ settled'.monitor = "simulated" /\ settled'.monitorStarted]_vars
C18_Witness ==
  /\ settled.call # 0 /\ settled.inputs.switchRejected
  /\ settled.outcome = "resolved" /\ mon[settled.call].timer = "poll"
  /\ walletChain # settled.inputs.from

\* C19: an invocation that, after its switch attempt, reads the chain again and
\* finds the wallet still on a chain other than fromChain rejects: it produces no
\* simulated intent and starts no monitor.
C19_FailedSwitchIsSurfaced ==
  (/\ settled.call # 0
   /\ settled.inputs.pc = "chain2"
   /\ settled.inputs.cur # settled.inputs.from
   /\ walletChain # settled.inputs.from)
    => /\ settled.outcome = "rejected"
       /\ settled.monitor = "none"
       /\ ~FromSimulation(hook.intentId)

\* nexusSdk.initialize(provider) calls awaited at this moment.
InitInFlight ==
  Cardinality({c \in CallIds : calls[c].pc = "init"}) + (IF modal.pc = "init" THEN 1 ELSE 0)
\* An awaited nexusSdk.initialize(provider) resolves in this step.
InitCompletes ==
  /\ nexusInitialized'
  /\ \/ \E c \in CallIds : calls[c].pc = "init" /\ calls'[c].pc = "bridge"
     \/ modal.pc = "init" /\ modal'.called

\* C21: at most one nexusSdk.initialize(provider) call is in flight at a time, and
\* an initialize call never completes on a session that is already initialized
\* (no second initialization without a teardown in between).
C21_InitializationSerialized ==
  [][InitInFlight' <= 1 /\ (InitCompletes => ~nexusInitialized)]_vars

RECURSIVE SumOver(_, _)
SumOver(f, S) ==
  IF S = {} THEN 0
  ELSE LET x == CHOOSE y \in S : TRUE IN f[x] + SumOver(f, S \ {x})

\* totalDeposits[token] is the sum of the users' deposits of that token.
LedgerBalanced(v) ==
  \A t \in Tokens :
    v.totalDeposits[t] = SumOver([u \in Users |-> v.userDeposits[u][t]], Users)

\* C22: after any sequence of deposit and withdraw calls totalDeposits[token] is the
\* sum over all users of userDeposits[user][token]; a successful deposit of a by u
\* raises userDeposits[u][token] and totalDeposits[token] by exactly a (and no other
\* entry); a call that reverts changes neither mapping.
C22_LedgerBalanced ==
  /\ LedgerBalanced(vault)
  /\ [][LET tx == vault'.tx
        IN  /\ LedgerBalanced(vault')
            /\ (tx.fn = "deposit" /\ ~tx.reverted) =>
                 /\ vault'.userDeposits[tx.sender][tx.token]
                      = vault.userDeposits[tx.sender][tx.token] + tx.amount
                 /\ vault'.totalDeposits[tx.token] = vault.totalDeposits[tx.token] + tx.amount
                 /\ \A t \in Tokens \ {tx.token} :
                      vault'.totalDeposits[t] = vault.totalDeposits[t]
                 /\ \A u \in Users, t \in Tokens :
                      (u # tx.sender \/ t # tx.token) =>
                        vault'.userDeposits[u][t] = vault.userDeposits[u][t]
            /\ tx.reverted =>
                 /\ vault'.totalDeposits = vault.totalDeposits
                 /\ vault'.userDeposits = vault.userDeposits]_vars
C22_Witness ==
  /\ vault.tx.fn = "deposit" /\ ~vault.tx.reverted /\ vault.tx.sender = "bob"
  /\ vault.userDeposits["alice"][vault.tx.token] > 0
  /\ vault.userDeposits["bob"][vault.tx.token] = vault.tx.amount
  /\ vault.totalDeposits[vault.tx.token] = UintMax

\* C23: an invocation calls bridgeAndExecute only when checkNexusSupport answered
\* supported = true for its chains and the value its latest eth_chainId read
\* returned equals params.fromChain; an invocation that settles with an
\* unsupported pair or with a latest read different from fromChain has made no
\* bridgeAndExecute call.
C23_BackendOnlyOnSupportedCorrectChain ==
  [][\A c \in CallIds :
       /\ CallsBackend(c) =>
            /\ checkNexusSupport(calls'[c].from, calls'[c].to, "token").supported
            /\ calls'[c].cur = calls'[c].from
       /\ (/\ settled'.call = c
           /\ \/ ~checkNexusSupport(settled'.inputs.from, settled'.inputs.to, "token").supported
              \/ settled'.inputs.cur # settled'.inputs.from)
            => /\ calls[c].pc # "bridge"
               /\ settled'.inputs.backend = "none"]_vars
C23_Witness ==
  \E c \in CallIds :
    /\ calls[c].pc = "bridge" /\ calls[c].cur = calls[c].from
    /\ walletChain # calls[c].from

\* The simulated monitor of invocation c has a poll pending.
SimulatedPolling(c) == mon[c].kind = "simulated" /\ mon[c].timer = "poll"

\* C24: a simulated monitor runs its first poll when it is started and one poll per
\* timer after that; the 12th poll writes completed and the synthesized txHash and
\* schedules no timer, no earlier poll writes completed, no poll writes failed, and
\* a monitor with a poll pending eventually has none.
C24_SimulatedMonitorCompletesAtTwelve ==
  /\ [][/\ settled'.monitor = "simulated" =>
             /\ mon'[settled'.call].pollCount = 1
             /\ mon'[settled'.call].timer = "poll"
        /\ \A c \in CallIds :
             (SimulatedPolling(c) /\ TimerStep(c)) =>
               /\ mon[c].pollCount < ExecutingBelow
               /\ \A i \in 1..Len(hook'.written) : hook'.written[i] # "failed"
               /\ IF mon[c].pollCount + 1 = ExecutingBelow
                  THEN /\ hook'.written = <<"completed">>
                       /\ hook'.txHash = Hash("synthesized", "tx", c)
                       /\ mon'[c].timer = "none"
                  ELSE /\ Len(hook'.written) = 1 /\ hook'.written[1] # "completed"
                       /\ mon'[c].timer = "poll"
                       /\ mon'[c].pollCount = mon[c].pollCount + 1]_vars
  /\ \A c \in CallIds : SimulatedPolling(c) ~> (mon[c].timer = "none")
C24_Witness ==
  \E c \in CallIds :
    /\ mon[c].kind = "simulated" /\ mon[c].timer = "none"
    /\ hook.written = <<"completed">> /\ hook.writer = c
    /\ hook.txHash = Hash("synthesized", "tx", c)

\* C25: when an invocation resolves, the status it returns is the value its step
\* wrote to the hook's status last, and so the value the hook shows at that moment.
C25_ReturnedStatusIsShown ==
  settled.outcome = "resolved" =>
    /\ hook.written # <<>>
    /\ hook.written[Len(hook.written)] = settled.ret.status
    /\ hook.status = settled.ret.status

\* C26: loading is true exactly when some invocation that passed its preconditions
\* has neither resolved nor rejected yet.
C26_LoadingIffInFlight ==
  hook.loading <=> (\E c \in CallIds : InFlight(c))

\* C27: whenever status is creating, intentId, txHash, bridgeTxHash and
\* executeTxHash are all null; and txHash is non-null only while status is completed.
C27_NoStaleIdentifiers ==
  /\ hook.status = "creating" =>
       /\ hook.intentId = Null /\ hook.txHash = Null
       /\ hook.bridgeTxHash = Null /\ hook.executeTxHash = Null
  /\ hook.txHash # Null => hook.status = "completed"

\* C28: once reset() has written the status last and no invocation is in flight,
\* a step that is not a new createBridgeAndExecute call leaves status idle and
\* error and txHash null, also when a monitor started before the reset has a
\* timer pending.
C28_ResetStaysIdle ==
  [][(/\ hook.writer = 0 /\ nCalls > 0
      /\ \A c \in CallIds : ~InFlight(c)
      /\ nCalls' = nCalls)
       => (hook'.status = "idle" /\ hook'.error = "null" /\ hook'.txHash = Null)]_vars

\* C29: the chain id named in the modal's timeout error (the final read) differs
\* from the target chain id named in it.
C29_TimeoutNamesAnotherChain ==
  modal.alert.message[1] = "Network switch timed out"
    => modal.alert.message[2] # modal.alert.message[3]

\* handleCrossChainConfirm starts in this step.
CrossChainConfirmStep ==
  /\ modal.pc = "closed"
  /\ \/ modal'.called
     \/ modal'.pc = "switch"
     \/ modal'.alert.message[1] = "No wallet provider found"

\* C30: through the modal's and the page's own actions the hook's status never
\* returns to idle once it has left idle; from then on the modal, when it is open
\* and not switching networks, shows the timeline, and handleCrossChainConfirm is
\* not started again.
C30_StatusNeverReturnsToIdle ==
  [][hook.status # "idle" =>
       /\ hook'.status # "idle"
       /\ View' \in {"none", "timeline"}
       /\ ~CrossChainConfirmStep]_vars
C30_Witness ==
  /\ hook.status = "completed" /\ View = "timeline"
  /\ modal.chain = "Base" /\ modal.source = Sepolia

====
